---------------------------- MODULE Spec2Model ----------------------------
(***************************************************************************)
(* The animation lifecycle of manimlib (begin / update / finish) over a    *)
(* small scene-node model, with the Transform family's structural          *)
(* alignment and the per-variant interpolation hooks.                      *)
(*                                                                         *)
(* Numbers.  A progress value (alpha) is a fixed-point integer in 0..One,  *)
(* One standing for the float 1.0.  Opacities use the same scale.          *)
(* Positions, widths and angles are integers of a fine grid.               *)
(*                                                                         *)
(* Nodes.  A node is a record; its family (the node's members in           *)
(* traversal order) is the sequence fam.  Nodes live in a heap indexed by  *)
(* reference, so that aliasing (target_copy being the target itself, a     *)
(* self-transform) is modelled as two references naming the same cell.     *)
(***************************************************************************)
EXTENDS Integers, Sequences, FiniteSets

(* ------------------------------ bounds -------------------------------- *)

\* Resolution of the alpha grid: alpha ranges over 0..Steps, Steps is 1.0.
Steps == 4

\* Largest family (number of members) of a generated node.
MaxFam == 5

\* Ambient wall-clock readings range over 0..MaxClock.
MaxClock == 1

\* Largest number of children of a generated combinator.
MaxChildren == 4

\* The runs of a cached function the model follows for one argument.
MaxInvocations == 2

One == Steps

Alphas == 0..One

Clock == 0..MaxClock

(* ----------------------------- arithmetic ------------------------------ *)

Min(a, b) == IF a <= b THEN a ELSE b

Max(a, b) == IF a >= b THEN a ELSE b

\* simple_functions.clip
clip(x, lo, hi) == Max(lo, Min(x, hi))

\* bezier.interpolate: (1 - alpha) * start + alpha * end, in fixed point.
interpolate(start, end, alpha) == ((One - alpha) * start + alpha * end) \div One

(* --------------------------- rate functions ---------------------------- *)

linear(t) == t

\* t^3 * (10 s^2 + 5 s t + t^2) with s = 1 - t, in fixed point.
smooth(t) ==
    LET s == One - t
    IN  (t * t * t * (10 * s * s + 5 * s * t + t * t)) \div (One * One * One * One)

\* there_and_back as it would be if it stayed at the top instead of returning.
ThereAndStay(t) == smooth(Min(2 * t, One))

there_and_back(t) ==
    LET new_t == IF 2 * t < One THEN 2 * t ELSE 2 * (One - t)
    IN  smooth(new_t)

\* 0.5 * smooth(2t) below one half, 0.5 * (1 + smooth(2t - 1)) from it on.
double_smooth(t) ==
    IF 2 * t < One THEN smooth(2 * t) \div 2
    ELSE (One + smooth(2 * t - One)) \div 2

\* bezier([0, 0, pull_factor, pull_factor, 1, 1, 1])(t) with pull_factor -1/2:
\* -1/2 (15 t^2 s^4 + 20 t^3 s^3) + 15 t^4 s^2 + 6 t^5 s + t^6, s = 1 - t,
\* rounded down to the grid.  Negative for small t.
running_start(t) ==
    LET s == One - t
        twice == 2 * (15 * t*t*t*t * s*s + 6 * t*t*t*t*t * s + t*t*t*t*t*t)
                 - (15 * t*t * s*s*s*s + 20 * t*t*t * s*s*s)
    IN  twice \div (2 * One * One * One * One * One)

\* bezier([0, 0, pull_factor, pull_factor, 1, 1])(t) with pull_factor 3/2:
\* 3/2 (10 t^2 s^3 + 10 t^3 s^2) + 5 t^4 s + t^5, s = 1 - t, rounded to the
\* nearest grid value.  Above 1 for large t < 1.
overshoot(t) ==
    LET s == One - t
        twice == 3 * (10 * t*t * s*s*s + 10 * t*t*t * s*s)
                 + 2 * (5 * t*t*t*t * s + t*t*t*t*t)
        den == 2 * One * One * One * One
    IN  (2 * twice + den) \div (2 * den)

\* Uncreate's default rate function, lambda t: smooth(1 - t).
smooth_reversed(t) == smooth(One - t)

\* k * smooth(num / den), rounded down to the grid.
SmoothTimes(k, num, den) ==
    LET s == den - num
    IN  (k * num * num * num * (10 * s * s + 5 * s * num + num * num) * One)
        \div (den * den * den * den * den)

\* 2 * smooth(0.5 * t)
rush_into(t) == SmoothTimes(2, t, 2 * One)

\* 2 * smooth(0.5 * (t + 1)) - 1
rush_from(t) == SmoothTimes(2, t + One, 2 * One) - One

\* The integer square root.
isqrt(x) == CHOOSE r \in 0..x : r * r <= x /\ (r + 1) * (r + 1) > x

\* np.sqrt(1 - (1 - t) * (1 - t)), rounded down to the grid.
slow_into(t) == isqrt(One * One - (One - t) * (One - t))

\* there_and_back_with_pause with pause_ratio 1/3: a = 2 / (1 - 1/3) = 3.
there_and_back_with_pause(t) ==
    IF 3 * t < One THEN smooth(3 * t)
    ELSE IF 3 * t < 2 * One THEN One
    ELSE smooth(3 * One - 3 * t)

\* not_quite_there(func = smooth, proportion = 0.7)
not_quite_there(t) == (7 * smooth(t)) \div 10

\* sin(2 pi t) on the grid, each half-wave approximated by the parabola
\* through its zeros and its peak; 0 at t = 0, 1/2 and 1.
sin_two_pi(t) ==
    LET u == (2 * t) % One
        bump == (4 * u * (One - u)) \div One
    IN  IF 2 * t < One THEN bump ELSE -bump

\* there_and_back(t) * np.sin(wiggles * np.pi * t) with wiggles = 2
wiggle(t) == (there_and_back(t) * sin_two_pi(t)) \div One

\* 1 - np.exp(-t / half_life) with half_life = 0.1, rounded down to the
\* grid; exp(-10 x) is bounded from above by 2^-k, k the integer part of
\* 14 x, and is never 0.
exponential_decay(t) ==
    LET k == (14 * t) \div One
    IN  One - ((One + 2^k - 1) \div 2^k)

\* The curves of the library that take t alone.
PlainCurves ==
    {"linear", "smooth", "rush_into", "rush_from", "slow_into", "double_smooth",
     "there_and_back", "there_and_back_with_pause", "running_start",
     "overshoot", "not_quite_there", "wiggle", "exponential_decay"}

\* func(t) for a curve of the library named func.
PlainCurve(func, t) ==
    CASE func = "linear" -> linear(t)
      [] func = "smooth" -> smooth(t)
      [] func = "rush_into" -> rush_into(t)
      [] func = "rush_from" -> rush_from(t)
      [] func = "slow_into" -> slow_into(t)
      [] func = "double_smooth" -> double_smooth(t)
      [] func = "there_and_back" -> there_and_back(t)
      [] func = "there_and_back_with_pause" -> there_and_back_with_pause(t)
      [] func = "running_start" -> running_start(t)
      [] func = "overshoot" -> overshoot(t)
      [] func = "not_quite_there" -> not_quite_there(t)
      [] func = "wiggle" -> wiggle(t)
      [] func = "exponential_decay" -> exponential_decay(t)

\* squish_rate_func(func, a, b)(t)
squish_rate_func(func, a, b, t) ==
    IF a = b THEN a
    ELSE IF t < a THEN PlainCurve(func, 0)
    ELSE IF t > b THEN PlainCurve(func, One)
    ELSE PlainCurve(func, ((t - a) * One) \div (b - a))

\* squish_rate_func(lambda t: t, 0, 0.8)(t)
lingering(t) == squish_rate_func("linear", 0, (4 * One) \div 5, t)

RateFuncs == {"linear", "smooth", "there_and_back"}

\* self.rate_func(t) for the rate function the animation was configured with.
rate_func(an, t) ==
    CASE an.rate = "linear" -> linear(t)
      [] an.rate = "smooth" -> smooth(t)
      [] an.rate = "there_and_back" -> there_and_back(t)
      [] an.rate = "double_smooth" -> double_smooth(t)
      [] an.rate = "running_start" -> running_start(t)
      [] an.rate = "overshoot" -> overshoot(t)
      [] an.rate = "smooth_reversed" -> smooth_reversed(t)

(* ----------------------- scene nodes (Mobject) ------------------------- *)

\* The data channels of a family member that interpolation works on.
Channels == {"pos", "width", "ang", "op"}

\* One family member: its path-segment count, position, (stroke) width,
\* angle, (fill) opacity, and the stretch <<lower, upper>> of its path that
\* its points cover (the whole path unless partially revealed).
Member(nseg, pos, width, ang, op) ==
    [nseg |-> nseg, pos |-> pos, width |-> width, ang |-> ang, op |-> op,
     vis |-> <<0, One>>]

\* A node: family, numeric value (DecimalNumber), locked data channels,
\* animating-status flag, whether it carries updaters.
Node(fam, value, updaters) ==
    [fam |-> fam, value |-> value, locked |-> {}, animating |-> FALSE,
     updaters |-> updaters]

\* The cell of a reference that names no node (None).
EmptyNode == Node(<<>>, 0, FALSE)

SetFam(n, fam) == [n EXCEPT !.fam = fam]

\* Mobject.copy: a deep clone (value semantics).
copy(n) == n

get_family(n) == n.fam

has_updaters(n) == n.updaters

set_animating_status(n, b) == [n EXCEPT !.animating = b]

\* Same family size and, pairwise, the same path-segment count.
is_aligned_with(a, b) ==
    /\ Len(a.fam) = Len(b.fam)
    /\ \A i \in DOMAIN a.fam : a.fam[i].nseg = b.fam[i].nseg

\* Family of size k from fam: the members in order, then its last member repeated.
PadFam(fam, k) ==
    IF Len(fam) = 0 \/ Len(fam) >= k THEN fam
    ELSE [i \in 1..k |-> IF i <= Len(fam) THEN fam[i] ELSE fam[Len(fam)]]

\* Family-size reconciliation: the smaller family is padded to the larger size.
align_family(a, b) ==
    LET k == Max(Len(a.fam), Len(b.fam))
    IN  <<SetFam(a, PadFam(a.fam, k)), SetFam(b, PadFam(b.fam, k))>>

\* Per-node path reconciliation: the member with fewer segments is subdivided.
align_data(a, b) ==
    LET k == Min(Len(a.fam), Len(b.fam))
        Sub(x, y) ==
            [i \in DOMAIN x.fam |->
                IF i <= k
                THEN [x.fam[i] EXCEPT !.nseg = Max(x.fam[i].nseg, y.fam[i].nseg)]
                ELSE x.fam[i]]
    IN  <<SetFam(a, Sub(a, b)), SetFam(b, Sub(b, a))>>

\* a.align_data_and_family(b): the pair (a, b) after alignment.
align_data_and_family(a, b) ==
    LET p == align_family(a, b)
    IN  align_data(p[1], p[2])

\* One member of submob.interpolate(start, target, alpha): every channel that is
\* not locked is the straight-path interpolation of start and target.
interpolate_member(sub, s, t, alpha, locked) ==
    [nseg  |-> s.nseg,
     vis   |-> s.vis,
     pos   |-> IF "pos" \in locked THEN sub.pos ELSE interpolate(s.pos, t.pos, alpha),
     width |-> IF "width" \in locked THEN sub.width
               ELSE interpolate(s.width, t.width, alpha),
     ang   |-> IF "ang" \in locked THEN sub.ang ELSE interpolate(s.ang, t.ang, alpha),
     op    |-> IF "op" \in locked THEN sub.op ELSE interpolate(s.op, t.op, alpha)]

\* The channels on which start and target agree in every member.
matching_channels(s, t) ==
    LET k == Min(Len(s.fam), Len(t.fam))
    IN  {c \in Channels : \A i \in 1..k : s.fam[i][c] = t.fam[i][c]}

lock_matching_data(n, s, t) == [n EXCEPT !.locked = matching_channels(s, t)]

unlock_data(n) == [n EXCEPT !.locked = {}]

SetOp(m, o) == [m EXCEPT !.op = o]

set_opacity(n, o) == SetFam(n, [i \in DOMAIN n.fam |-> SetOp(n.fam[i], o)])

shift(n, v) ==
    SetFam(n, [i \in DOMAIN n.fam |-> [n.fam[i] EXCEPT !.pos = @ + v]])

PosSet(n) == {n.fam[i].pos : i \in DOMAIN n.fam}

\* Centre of the bounding box of the family (0 for an empty family).
get_center(n) ==
    IF n.fam = <<>> THEN 0
    ELSE LET lo == CHOOSE x \in PosSet(n) : \A y \in PosSet(n) : x <= y
             hi == CHOOSE x \in PosSet(n) : \A y \in PosSet(n) : x >= y
         IN  (lo + hi) \div 2

\* Scaling about the centre: distances to the centre and widths are multiplied.
scale(n, k) ==
    LET c == get_center(n)
    IN  SetFam(n, [i \in DOMAIN n.fam |->
            [n.fam[i] EXCEPT !.pos = c + k * (@ - c), !.width = k * @]])

move_to(n, p) == shift(n, p - get_center(n))

\* A full turn (TAU) on the angle grid.
Turn == 4 * One

\* Rotation by theta: every member's angle advances by theta, modulo a turn.
rotate(n, theta) ==
    SetFam(n, [i \in DOMAIN n.fam |-> [n.fam[i] EXCEPT !.ang = (@ + theta) % Turn]])

\* VMobject.pointwise_become_partial: submob takes the points of the stretch
\* lower..upper of source's path.
pointwise_become_partial(submob, source, lower, upper) ==
    [submob EXCEPT !.nseg = source.nseg, !.pos = source.pos,
                   !.vis = <<lower, upper>>]

\* Mobject.set_data(other.data): every data field becomes other's.
set_data(submob, other) == other

\* Mobject.match_style: fill opacity and stroke width become other's,
\* member by member.
match_style(n, other) ==
    SetFam(n, [i \in DOMAIN n.fam |->
                 IF i <= Len(other.fam)
                 THEN [n.fam[i] EXCEPT !.op = other.fam[i].op,
                                       !.width = other.fam[i].width]
                 ELSE n.fam[i]])

\* bezier.integer_interpolate(start, end, alpha): the integer part and the
\* residue of the interpolation.
integer_interpolate(start, end, alpha) ==
    IF alpha >= One THEN <<end - 1, One>>
    ELSE IF alpha <= 0 THEN <<start, 0>>
    ELSE <<start + ((end - start) * alpha) \div One, ((end - start) * alpha) % One>>

set_submobjects(n, fam) == SetFam(n, fam)

set_value(n, v) == [n EXCEPT !.value = v]

\* source.replace(target): source takes the position and the size of target.
replace(source, target) ==
    [source EXCEPT !.pos = target.pos, !.width = target.width]

(* ------------------------ animation instances -------------------------- *)

(***************************************************************************)
(* An animation instance is a record an.  Its references name heap cells:  *)
(*   "m"  the animated node (self.mobject)                                 *)
(*   "t"  the target node supplied by the caller                           *)
(*   "ct" a target made by create_target                                   *)
(*   "tc" the copy of the target made by Transform.begin                   *)
(*   "s"  the starting snapshot (self.starting_mobject)                    *)
(*   "e"  FadeTransform's ending_mobject                                   *)
(*   "o"  DrawBorderThenFill's outline                                     *)
(*   "none" stands for None / an attribute not set yet.                    *)
(* Fields phase, raised, used, captured, list_index, bounds and swaps       *)
(* record what the calls so far did; the program has no such fields.       *)
(***************************************************************************)
Refs == {"none", "m", "t", "ct", "tc", "s", "e", "o"}

\* Variants whose begin / finish / interpolate_submobject are Transform's.
TransformKinds ==
    {"Transform", "FadeOut", "CyclicReplace", "ReplacementTransform",
     "FadeIn", "GrowFromCenter"}

\* Variants that keep Animation.interpolate_mobject (per-member dispatch).
DispatchKinds ==
    TransformKinds \cup {"FadeTransform", "VFadeIn", "VFadeInThenOut", "Homotopy"}

Kinds ==
    DispatchKinds \cup
    {"ShowIncreasingSubsets", "MoveAlongPath", "ChangeDecimalToValue",
     "Rotating", "PhaseFlow"}

Raise(an) == [an EXCEPT !.raised = TRUE]

Ok(an) == [an EXCEPT !.raised = FALSE]

(* ------------------- Animation (the shared base class) ------------------ *)

\* The time-span restriction: 0 before the span, 1 after it.
time_spanned_alpha(an, alpha) ==
    IF an.has_span
    THEN clip(alpha * an.run_time - an.span_start * One,
              0, (an.span_end - an.span_start) * One)
         \div (an.span_end - an.span_start)
    ELSE alpha

\* The timing curve applied to member index's sub-window (stagger lag_ratio).
get_sub_alpha(an, alpha, index, n) ==
    LET full_length == (n - 1) * an.lag_ratio + One
        value == (alpha * full_length) \div One
        lower == index * an.lag_ratio
    IN  rate_func(an, clip(value - lower, 0, One))

\* GrowFromPoint.create_starting_mobject: the clone, scaled to nothing and
\* moved to the growth point.
GrowFromPointCreateStartingMobject(an) ==
    move_to(scale(copy(an.heap["m"]), 0), an.point)

\* FadeIn.create_starting_mobject for a scale factor other than 0: the clone,
\* transparent, scaled by 1 / scale_factor (exact on the grid for the factor
\* 1) and shifted back.
FadeInCreateStartingMobject(an) ==
    shift(scale(set_opacity(copy(an.heap["m"]), 0), 1 \div an.scale_factor),
          -an.shift_vect)

\* self.create_starting_mobject(); Animation's is a clone of the node as it
\* is now.
create_starting_mobject(an) ==
    CASE an.kind = "GrowFromCenter" -> GrowFromPointCreateStartingMobject(an)
      [] an.kind = "FadeIn" -> FadeInCreateStartingMobject(an)
      [] OTHER -> copy(an.heap["m"])

\* Animation.begin: capture the starting snapshot.
AnimationBegin(an) ==
    LET start == create_starting_mobject(an)
    IN  [an EXCEPT !.heap["s"] = start, !.starting_mobject = "s",
                   !.captured = start]

\* The node zipped third with (mobject, starting_mobject) by
\* get_all_families_zipped: target_copy for Transform, ending_mobject for
\* FadeTransform, none for the rest.
ThirdRef(an) ==
    CASE an.kind \in TransformKinds -> an.target_copy
      [] an.kind = "FadeTransform" -> "e"
      [] an.kind = "DrawBorderThenFill" -> "o"
      [] OTHER -> "s"

\* Transform.interpolate_submobject
TransformInterpolateSubmobject(an, submob, start, target_copy, alpha) ==
    interpolate_member(submob, start, target_copy, alpha, an.heap["m"].locked)

\* VFadeIn.interpolate_submobject: stroke and fill opacity from 0 to start's.
VFadeInInterpolateSubmobject(an, submob, start, alpha) ==
    SetOp(submob, interpolate(0, start.op, alpha))

\* get_bounds as a bounds function that hides the path from its start.
GetBoundsFromEnd(alpha) == <<alpha, One>>

\* ShowCreation.get_bounds
ShowCreationGetBounds(alpha) == <<0, alpha>>

\* self.get_bounds(alpha): ShowCreation's, which Uncreate inherits.
get_bounds(an, alpha) == ShowCreationGetBounds(alpha)

\* Variants that are ShowPartial's.
PartialKinds == {"ShowCreation", "Uncreate"}

\* ShowPartial.interpolate_submobject
ShowPartialInterpolateSubmobject(an, submob, start_submob, alpha) ==
    pointwise_become_partial(submob, start_submob,
                             get_bounds(an, alpha)[1], get_bounds(an, alpha)[2])

\* The crossing test as it would be without the sm_to_index bookkeeping.
CrossesOverEveryTime(an, i, alpha) == integer_interpolate(0, 2, alpha)[1] = 1

\* DrawBorderThenFill.interpolate_submobject crosses over for member i: the
\* second half is reached and sm_to_index still holds 0 for the member.
CrossesOver(an, i, alpha) ==
    /\ integer_interpolate(0, 2, alpha)[1] = 1
    /\ an.sm_to_index[i] = 0

\* DrawBorderThenFill.interpolate_submobject, the member it leaves.
DrawBorderThenFillInterpolateSubmobject(an, i, submob, start, outline, alpha) ==
    LET index == integer_interpolate(0, 2, alpha)[1]
        subalpha == integer_interpolate(0, 2, alpha)[2]
        sm == IF CrossesOver(an, i, alpha) THEN set_data(submob, outline)
              ELSE submob
    IN  IF index = 0
        THEN pointwise_become_partial(sm, outline, 0, subalpha)
        ELSE interpolate_member(sm, outline, start, subalpha, {})

\* The homotopy given to Homotopy: a bump that moves a point x out and, by
\* time 1, back: (x, t) |-> x + 2 t (1 - t).
homotopy(x, t) == x + (2 * t * (One - t)) \div One

\* Homotopy.interpolate_submobject: the member takes start's points, moved
\* by the homotopy at time alpha.
HomotopyInterpolateSubmobject(an, submob, start, alpha) ==
    [submob EXCEPT !.nseg = start.nseg, !.pos = homotopy(start.pos, alpha)]

\* self.interpolate_submobject(...) for the i-th zipped family member.
interpolate_submobject(an, i, submob, start, third, alpha) ==
    CASE an.kind \in TransformKinds \cup {"FadeTransform"}
            -> TransformInterpolateSubmobject(an, submob, start, third, alpha)
      [] an.kind = "Homotopy"
            -> HomotopyInterpolateSubmobject(an, submob, start, alpha)
      [] an.kind \in PartialKinds
            -> ShowPartialInterpolateSubmobject(an, submob, start, alpha)
      [] an.kind = "DrawBorderThenFill"
            -> DrawBorderThenFillInterpolateSubmobject(an, i, submob, start,
                                                       third, alpha)
      [] OTHER -> VFadeInInterpolateSubmobject(an, submob, start, alpha)

\* VFadeIn.interpolate_submobject calls set_stroke and set_fill, which only
\* a vector-path node has.
LacksStroke(an) ==
    an.kind \in {"VFadeIn", "VFadeInThenOut"} /\ an.node_type = "Mobject"

\* Animation.interpolate_mobject: every zipped family member is interpolated
\* at its own sub-alpha.  The families exist only once begin has run.
AnimationInterpolateMobject(an, alpha) ==
    IF an.starting_mobject = "none" \/ LacksStroke(an) THEN Raise(an)
    ELSE
    LET m == an.heap["m"]
        s == an.heap[an.starting_mobject]
        third == an.heap[ThirdRef(an)]
        n == Min(Len(m.fam), Min(Len(s.fam), Len(third.fam)))
        tsa == time_spanned_alpha(an, alpha)
        sub(i) == get_sub_alpha(an, tsa, i - 1, n)
        newfam == [i \in DOMAIN m.fam |->
                     IF i <= n
                     THEN interpolate_submobject(an, i, m.fam[i], s.fam[i],
                                                 third.fam[i], sub(i))
                     ELSE m.fam[i]]
        crossed(i) == an.kind = "DrawBorderThenFill" /\ i <= n
                      /\ CrossesOver(an, i, sub(i))
    IN  Ok([an EXCEPT !.heap["m"].fam = newfam,
                      !.used = [i \in 1..n |-> sub(i)],
                      !.sm_to_index = [i \in DOMAIN @ |->
                                          IF crossed(i) THEN 1 ELSE @[i]],
                      !.swaps = [i \in DOMAIN @ |->
                                    IF crossed(i) THEN @[i] + 1 ELSE @[i]],
                      !.bounds = IF an.kind \in PartialKinds
                                 THEN [i \in 1..n |-> get_bounds(an, sub(i))]
                                 ELSE @])

(* ------------------- interpolate_mobject overrides ---------------------- *)

\* np.round of the fixed-point x (x / One): to the nearest integer, ties to even.
np_round(x) ==
    LET q == x \div One
        r == x % One
    IN  IF 2 * r < One THEN q
        ELSE IF 2 * r > One THEN q + 1
        ELSE IF q % 2 = 0 THEN q ELSE q + 1

\* The Python slice seq[:index].
SliceTo(seq, index) ==
    LET k == IF index >= 0 THEN Min(index, Len(seq)) ELSE Max(Len(seq) + index, 0)
    IN  SubSeq(seq, 1, k)

\* np.floor and np.ceil of the fixed-point x (x / One).
np_floor(x) == x \div One

np_ceil(x) == -((-x) \div One)

\* int(self.int_func(x)) for the rounding function given at construction.
int_func(an, x) ==
    CASE an.int_func = "round" -> np_round(x)
      [] an.int_func = "floor" -> np_floor(x)
      [] an.int_func = "ceil" -> np_ceil(x)

\* ShowIncreasingSubsets.update_submobject_list; list_index records the
\* slice bound handed to the child list.
update_submobject_list(an, index) ==
    [an EXCEPT !.heap["m"] = set_submobjects(@, SliceTo(an.all_submobs, index)),
               !.list_index = <<index>>]

\* ShowSubmobjectsOneByOne.update_submobject_list; list_index records the
\* (zero-based) subscript handed to the child list, if any.
ShowSubmobjectsOneByOneUpdateSubmobjectList(an, index0) ==
    LET index == clip(index0, 0, Len(an.all_submobs) - 1)
    IN  IF index = 0
        THEN [an EXCEPT !.heap["m"] = set_submobjects(@, <<>>),
                        !.list_index = <<>>]
        ELSE [an EXCEPT !.heap["m"] = set_submobjects(@, <<an.all_submobs[index]>>),
                        !.list_index = <<index - 1>>]

\* self.update_submobject_list(index), by variant.
self_update_submobject_list(an, index) ==
    IF an.kind = "ShowSubmobjectsOneByOne"
    THEN ShowSubmobjectsOneByOneUpdateSubmobjectList(an, index)
    ELSE update_submobject_list(an, index)

\* ShowIncreasingSubsets.interpolate_mobject
ShowIncreasingSubsetsInterpolateMobject(an, alpha) ==
    LET n_submobs == Len(an.all_submobs)
        a == rate_func(an, alpha)
        index == int_func(an, a * n_submobs)
    IN  Ok([self_update_submobject_list(an, index) EXCEPT !.used = <<a>>])

\* path.quick_point_from_proportion for a straight path from path_lo to path_hi.
quick_point_from_proportion(an, p) == interpolate(an.path_lo, an.path_hi, p)

\* MoveAlongPath.interpolate_mobject
MoveAlongPathInterpolateMobject(an, alpha) ==
    LET a == rate_func(an, alpha)
        point == quick_point_from_proportion(an, a)
    IN  Ok([an EXCEPT !.heap["m"] = move_to(@, point), !.used = <<a>>])

\* ChangeDecimalToValue's number_update_func
number_update_func(an, a) == interpolate(an.start_number, an.target_number, a)

\* ChangingDecimal.interpolate_mobject
ChangingDecimalInterpolateMobject(an, alpha) ==
    LET true_alpha == time_spanned_alpha(an, alpha)
        new_value == number_update_func(an, true_alpha)
    IN  Ok([an EXCEPT !.heap["m"] = set_value(@, new_value), !.used = <<true_alpha>>])

\* The loop of Rotating.interpolate_mobject: the point-like data of sm1 (a
\* member of the node) is overwritten by that of sm2 (the snapshot's member).
RotatingCopyPoints(sm1, sm2) ==
    [sm1 EXCEPT !.pos = sm2.pos, !.width = sm2.width, !.ang = sm2.ang]

\* The copying loop of Rotating with source and destination exchanged: the
\* snapshot's members are overwritten by the node's.
RotatingResetPairReversed(m, s) ==
    LET k == Min(Len(m.fam), Len(s.fam))
    IN  <<m,
          SetFam(s, [i \in DOMAIN s.fam |->
                        IF i <= k THEN RotatingCopyPoints(s.fam[i], m.fam[i])
                        ELSE s.fam[i]])>>

\* The pair (node, snapshot) after the copying loop of Rotating.
RotatingResetPair(m, s) ==
    LET k == Min(Len(m.fam), Len(s.fam))
    IN  <<SetFam(m, [i \in DOMAIN m.fam |->
                        IF i <= k THEN RotatingCopyPoints(m.fam[i], s.fam[i])
                        ELSE m.fam[i]]),
          s>>

\* Rotating.interpolate_mobject
RotatingInterpolateMobject(an, alpha) ==
    IF an.starting_mobject = "none" THEN Raise(an)
    ELSE
    LET pair == RotatingResetPair(an.heap["m"], an.heap[an.starting_mobject])
        a == rate_func(an, time_spanned_alpha(an, alpha))
        theta == (a * an.angle) \div One
    IN  Ok([an EXCEPT !.heap["m"] = rotate(pair[1], theta),
                      !.heap[an.starting_mobject] = pair[2],
                      !.used = <<a>>])

\* The vector field of PhaseFlow (self.function): a constant unit field.
function(p) == 1

\* The time step of PhaseFlow as it would be if measured on the wall clock.
PhaseFlowDtWallClock(an, alpha, now) == an.virtual_time * (now * One - an.last_alpha)

\* The time step PhaseFlow integrates over: virtual_time * (alpha - last_alpha).
PhaseFlowDt(an, alpha, now) == an.virtual_time * (alpha - an.last_alpha)

\* PhaseFlow.interpolate_mobject; last_alpha = -1 stands for "no attribute".
PhaseFlowInterpolateMobject(an, alpha, now) ==
    LET dt == PhaseFlowDt(an, alpha, now)
        moved == SetFam(an.heap["m"],
                    [i \in DOMAIN an.heap["m"].fam |->
                        [an.heap["m"].fam[i] EXCEPT !.pos = @ + dt * function(@)]])
    IN  Ok([an EXCEPT !.heap["m"] = IF an.last_alpha >= 0 THEN moved ELSE @,
                      !.last_alpha = alpha,
                      !.used = <<alpha>>])

\* self.interpolate_mobject(alpha), by variant.  now is the wall-clock time
\* at the call.
interpolate_mobject(an, alpha, now) ==
    CASE an.kind \in {"ShowIncreasingSubsets", "ShowSubmobjectsOneByOne"}
            -> ShowIncreasingSubsetsInterpolateMobject(an, alpha)
      [] an.kind = "MoveAlongPath" -> MoveAlongPathInterpolateMobject(an, alpha)
      [] an.kind = "ChangeDecimalToValue" -> ChangingDecimalInterpolateMobject(an, alpha)
      [] an.kind = "Rotating" -> RotatingInterpolateMobject(an, alpha)
      [] an.kind = "PhaseFlow" -> PhaseFlowInterpolateMobject(an, alpha, now)
      [] OTHER -> AnimationInterpolateMobject(an, alpha)

\* Animation.update(alpha)
update(an, alpha, now) == interpolate_mobject(an, alpha, now)

(* ------------------------------- begin --------------------------------- *)

\* FadeOut.create_target as it would be without the shift.
FadeOutCreateTargetUnshifted(an) ==
    LET result == scale(set_opacity(copy(an.heap["m"]), 0), an.scale_factor)
    IN  [an EXCEPT !.heap["ct"] = result, !.target_mobject = "ct"]

\* FadeOut.create_target: a transparent, shifted and scaled copy of the node.
FadeOutCreateTarget(an) ==
    LET result == scale(shift(set_opacity(copy(an.heap["m"]), 0), an.shift_vect),
                        an.scale_factor)
    IN  [an EXCEPT !.heap["ct"] = result, !.target_mobject = "ct"]

\* CyclicReplace.create_target: in a copy of the group, the last member is
\* moved to the first member's place and every other member to the place of
\* the member after it.  An empty group has no last member.
CyclicReplaceCreateTarget(an) ==
    LET group == an.heap["m"]
        n == Len(group.fam)
        target == copy(group)
        moved == SetFam(target,
                    [j \in DOMAIN target.fam |->
                        [target.fam[j] EXCEPT !.pos = group.fam[(j % n) + 1].pos]])
    IN  IF n = 0 THEN an
        ELSE [an EXCEPT !.heap["ct"] = moved, !.target_mobject = "ct"]

\* FadeIn.create_target and GrowFromPoint.create_target: a copy of the node.
CopyCreateTarget(an) ==
    [an EXCEPT !.heap["ct"] = copy(an.heap["m"]), !.target_mobject = "ct"]

\* self.target_mobject = self.create_target(); Transform.create_target returns
\* the target given at construction.
create_target(an) ==
    CASE an.kind = "FadeOut" -> FadeOutCreateTarget(an)
      [] an.kind = "CyclicReplace" -> CyclicReplaceCreateTarget(an)
      [] an.kind \in {"FadeIn", "GrowFromCenter"} -> CopyCreateTarget(an)
      [] OTHER -> an

\* check_target_mobject_validity as it would be without its test.
NoValidityCheck(an) == TRUE

\* Transform.check_target_mobject_validity: TRUE when it does not raise.
check_target_mobject_validity(an) == an.target_mobject # "none"

\* Transform.begin's choice of target_copy as it would be without the copy.
TargetCopyIsTarget(an) == an.target_mobject

\* The reference Transform.begin binds target_copy to: the target itself when
\* the node is aligned with it, a fresh copy otherwise.
TargetCopyRef(an) ==
    IF is_aligned_with(an.heap["m"], an.heap[an.target_mobject])
    THEN an.target_mobject
    ELSE "tc"

\* Lines 88-96 of Transform.begin as they would be without the alignment call.
TransformAlignSkipped(an) ==
    LET ref == IF is_aligned_with(an.heap["m"], an.heap[an.target_mobject])
               THEN an.target_mobject
               ELSE "tc"
    IN  [an EXCEPT !.target_copy = ref,
                   !.heap = IF ref = "tc"
                            THEN [an.heap EXCEPT !["tc"] = copy(an.heap[an.target_mobject])]
                            ELSE an.heap]

\* Lines 88-96 of Transform.begin as they would be if the node were aligned
\* with the target given by the caller rather than with target_copy.
TransformAlignWithTarget(an) ==
    LET ref == TargetCopyRef(an)
        h1 == IF ref = "tc"
              THEN [an.heap EXCEPT !["tc"] = copy(an.heap[an.target_mobject])]
              ELSE an.heap
        pair == align_data_and_family(h1["m"], h1[an.target_mobject])
    IN  [an EXCEPT !.target_copy = ref,
                   !.heap = [h1 EXCEPT !["m"] = pair[1],
                                       ![an.target_mobject] = pair[2]]]

\* Lines 88-96 of Transform.begin: bind target_copy, then align the node with it.
TransformAlign(an) ==
    LET ref == TargetCopyRef(an)
        h1 == IF ref = "tc"
              THEN [an.heap EXCEPT !["tc"] = copy(an.heap[an.target_mobject])]
              ELSE an.heap
        pair == align_data_and_family(h1["m"], h1[ref])
    IN  [an EXCEPT !.target_copy = ref,
                   !.heap = [h1 EXCEPT !["m"] = pair[1], ![ref] = pair[2]]]

\* Lines 98-102 of Transform.begin: lock the matching data unless the node
\* has updaters.
TransformLock(an) ==
    IF has_updaters(an.heap["m"]) THEN an
    ELSE [an EXCEPT !.heap["m"] =
              lock_matching_data(@, an.heap[an.starting_mobject],
                                 an.heap[an.target_copy])]

\* Lines 96-102 of Transform.begin, after target_copy is bound and aligned.
TransformSnapshotAndLock(an) == TransformLock(AnimationBegin(an))

\* Transform.begin as it would be with the snapshot taken before alignment.
TransformBeginSnapshotFirst(an) ==
    LET a1 == create_target(an)
    IN  IF ~check_target_mobject_validity(a1) THEN Raise(a1)
        ELSE Ok(TransformLock(TransformAlign(AnimationBegin(a1))))

\* Transform.begin
TransformBegin(an) ==
    LET a1 == create_target(an)
    IN  IF ~check_target_mobject_validity(a1) THEN Raise(a1)
        ELSE Ok(TransformSnapshotAndLock(TransformAlign(a1)))

\* FadeTransform.ghost_to
ghost_to(source, target) == SetOp(replace(source, target), 0)

\* The snapshot after the loop of FadeTransform.begin has ghosted start[1] to
\* start[0].
FadeTransformGhostStart(start) ==
    SetFam(start, [start.fam EXCEPT ![2] = ghost_to(start.fam[2], start.fam[1])])

\* FadeTransform.begin
FadeTransformBegin(an) ==
    LET a1 == [an EXCEPT !.heap["e"] = copy(an.heap["m"])]
        a2 == AnimationBegin(a1)
        start == a2.heap["s"]
        endm == a2.heap["e"]
    IN  Ok([a2 EXCEPT
              !.heap["s"] = FadeTransformGhostStart(start),
              !.heap["e"] = SetFam(endm,
                  [endm.fam EXCEPT ![1] = ghost_to(endm.fam[1], endm.fam[2])])])

\* DrawBorderThenFill.get_outline: a copy with no fill and the configured
\* stroke width.
get_outline(an) ==
    LET outline == set_opacity(copy(an.heap["m"]), 0)
    IN  SetFam(outline, [i \in DOMAIN outline.fam |->
                            [outline.fam[i] EXCEPT !.width = an.stroke_width]])

\* DrawBorderThenFill.begin
DrawBorderThenFillBegin(an) ==
    LET a1 == [an EXCEPT !.heap["m"] = set_animating_status(@, TRUE)]
        a2 == [a1 EXCEPT !.heap["o"] = get_outline(a1)]
        a3 == AnimationBegin(a2)
    IN  Ok([a3 EXCEPT !.heap["m"] = match_style(@, a3.heap["o"])])

\* Transform.begin on a FadeIn: create_starting_mobject divides 1.0 by the
\* scale factor, which raises ZeroDivisionError for the factor 0.
FadeInBegin(an) ==
    IF an.scale_factor = 0 THEN Raise(TransformAlign(create_target(an)))
    ELSE TransformBegin(an)

\* self.begin(), by variant.
begin(an) ==
    LET r == CASE an.kind = "FadeIn" -> FadeInBegin(an)
               [] an.kind \in TransformKinds -> TransformBegin(an)
               [] an.kind = "FadeTransform" -> FadeTransformBegin(an)
               [] an.kind = "DrawBorderThenFill" -> DrawBorderThenFillBegin(an)
               [] OTHER -> Ok(AnimationBegin(an))
    IN  IF r.raised THEN r ELSE [r EXCEPT !.phase = "begun"]

(* ------------------------------- finish -------------------------------- *)

\* final_alpha_value as it would be if no constructor overrode the default.
AlwaysFinishAtOne(kind) == One

\* The final_alpha_value each constructor hands to Animation.__init__.
final_alpha_value(kind) ==
    CASE kind = "FadeOut" -> 0
      [] kind = "VFadeInThenOut" -> One \div 2
      [] OTHER -> One

\* The remover flag each constructor hands to Animation.__init__.
remover(kind) == kind \in {"FadeOut", "VFadeInThenOut"}

\* Animation.finish: one last update, at final_alpha_value.
AnimationFinish(an, now) == update(an, an.final_alpha_value, now)

\* Transform.finish as it would be without its unlock_data call.
TransformFinishKeepsLock(an, now) == AnimationFinish(an, now)

\* Transform.finish
TransformFinish(an, now) ==
    LET r == AnimationFinish(an, now)
    IN  IF r.raised THEN r ELSE [r EXCEPT !.heap["m"] = unlock_data(@)]

\* self.finish(), by variant.
finish(an, now) ==
    LET r == IF an.kind \in TransformKinds \cup {"FadeTransform"}
             THEN TransformFinish(an, now)
             ELSE AnimationFinish(an, now)
    IN  IF r.raised THEN r ELSE [r EXCEPT !.phase = "finished"]

(* -------------------------- clean_up_from_scene ------------------------- *)

\* Animation.clean_up_from_scene: a remover takes its node out of the scene.
AnimationCleanUp(an) ==
    IF an.remover THEN [an EXCEPT !.scene = @ \ {"m"}] ELSE an

\* Transform.clean_up_from_scene as it would be if it put the aligned copy
\* the animation interpolated towards into the scene.
TransformCleanUpAddsCopy(an) ==
    LET a1 == AnimationCleanUp(an)
    IN  IF an.replace_mobject_with_target_in_scene
        THEN [a1 EXCEPT !.scene = (@ \ {"m"}) \cup {an.target_copy}]
        ELSE a1

\* Transform.clean_up_from_scene
TransformCleanUp(an) ==
    LET a1 == AnimationCleanUp(an)
    IN  IF an.replace_mobject_with_target_in_scene
        THEN [a1 EXCEPT !.scene = (@ \ {"m"}) \cup {an.target_mobject}]
        ELSE a1

\* FadeTransform.clean_up_from_scene
FadeTransformCleanUp(an) ==
    LET a1 == AnimationCleanUp(an)
        a2 == [a1 EXCEPT !.scene = @ \ {"m"},
                         !.heap["m"].fam[1] = an.saved_state]
    IN  IF ~an.remover THEN [a2 EXCEPT !.scene = @ \cup {"t"}] ELSE a2

clean_up_from_scene(an) ==
    LET r == CASE an.kind \in TransformKinds -> TransformCleanUp(an)
               [] an.kind = "FadeTransform" -> FadeTransformCleanUp(an)
               [] OTHER -> AnimationCleanUp(an)
    IN  [r EXCEPT !.cleaned = TRUE, !.raised = FALSE]

(* ---------------------------- construction ----------------------------- *)

\* A family of n members: segment counts alternate (phase k), positions are
\* distinct and start after p0.
Fam(n, k, p0) ==
    [i \in 1..n |-> Member(1 + ((i + k) % 2), p0 + 2 * i, 2, 0, One)]

\* Animation.__init__ with every option at its default, on a node with the
\* given family.
Construct(kind, fam) ==
    [kind |-> kind, rate |-> "smooth",
     has_span |-> FALSE, span_start |-> 0, span_end |-> 1, run_time |-> 1,
     lag_ratio |-> 0,
     final_alpha_value |-> final_alpha_value(kind),
     remover |-> remover(kind),
     replace_mobject_with_target_in_scene |-> FALSE,
     shift_vect |-> 0, scale_factor |-> 1, angle |-> 0, virtual_time |-> 1,
     path_lo |-> 0, path_hi |-> 0, point |-> 0, all_submobs |-> <<>>,
     int_func |-> "round", list_index |-> <<>>,
     stroke_width |-> 0, sm_to_index |-> <<>>, swaps |-> <<>>,
     bounds |-> <<>>,
     node_type |-> "VMobject", remover_arg |-> "unset",
     start_number |-> 0, target_number |-> 0,
     saved_state |-> Member(1, 0, 0, 0, 0),
     target_mobject |-> "none", target_copy |-> "none",
     starting_mobject |-> "none", last_alpha |-> -1,
     heap |-> [r \in Refs |-> IF r = "m" THEN Node(fam, 0, FALSE) ELSE EmptyNode],
     scene |-> {"m"},
     phase |-> "constructed", raised |-> FALSE, used |-> <<>>,
     captured |-> EmptyNode, cleaned |-> FALSE]

\* The rate_func / time_span options a caller may pass: no time span, or the
\* second half of a run of two seconds.
WithTiming(an, rate, span) ==
    [an EXCEPT !.rate = rate, !.has_span = span,
               !.span_start = 1, !.span_end = 2,
               !.run_time = IF span THEN 2 ELSE 1]

Timings == RateFuncs \X BOOLEAN

FewTimings == {<<"linear", FALSE>>, <<"smooth", TRUE>>}

\* Transform(mobject, target): no target, the node itself, or another node.
TransformTargets ==
    {<<"none", 0, 0>>, <<"m", 0, 0>>} \cup
    {<<"t", nt, kt>> : nt \in 1..MaxFam, kt \in 0..1}

ConstructTransform(ns, tgt, upd) ==
    [Construct("Transform", Fam(ns, 0, 0)) EXCEPT
        !.target_mobject = tgt[1],
        !.heap["m"].updaters = upd,
        !.heap["t"] = IF tgt[1] = "t" THEN Node(Fam(tgt[2], tgt[3], 20), 0, FALSE)
                      ELSE EmptyNode]

ConstructFadeOut(ns, shift_vect, scale_factor) ==
    [Construct("FadeOut", Fam(ns, 0, 0)) EXCEPT
        !.shift_vect = shift_vect, !.scale_factor = scale_factor]

\* FadeTransform(mobject, target): the animated node is Group(mobject,
\* target.copy()); mobject.save_state() keeps mobject's state.
ConstructFadeTransform(kt) ==
    LET src == Fam(1, 0, 0)[1]
        tgt == [Fam(1, kt, 20)[1] EXCEPT !.width = 6]
    IN  [Construct("FadeTransform", <<src, tgt>>) EXCEPT
            !.saved_state = src,
            !.heap["t"] = Node(<<tgt>>, 0, FALSE)]

ConstructShowIncreasingSubsets(ns) ==
    [Construct("ShowIncreasingSubsets", Fam(ns, 0, 0)) EXCEPT
        !.all_submobs = Fam(ns, 0, 0)]

\* ShowSubmobjectsOneByOne(group, int_func): np.ceil unless given.
ConstructShowSubmobjectsOneByOne(ns, f) ==
    [Construct("ShowSubmobjectsOneByOne", Fam(ns, 0, 0)) EXCEPT
        !.all_submobs = Fam(ns, 0, 0), !.int_func = f]

\* ShowIncreasingSubsets(group, int_func): np.round unless given.
ConstructShowIncreasingSubsetsWith(ns, f) ==
    [ConstructShowIncreasingSubsets(ns) EXCEPT !.int_func = f]

ConstructMoveAlongPath(ns) ==
    [Construct("MoveAlongPath", Fam(ns, 0, 0)) EXCEPT
        !.path_lo = 10, !.path_hi = 10 + 2 * One]

ConstructChangeDecimalToValue(start, target) ==
    [Construct("ChangeDecimalToValue", Fam(1, 0, 0)) EXCEPT
        !.heap["m"].value = start, !.node_type = "DecimalNumber",
        !.start_number = start, !.target_number = target]

ConstructRotating(ns, angle) ==
    [Construct("Rotating", Fam(ns, 0, 0)) EXCEPT !.angle = angle]

ConstructPhaseFlow(ns, virtual_time) ==
    [Construct("PhaseFlow", Fam(ns, 0, 0)) EXCEPT !.virtual_time = virtual_time]

\* The animations a caller constructs.
Constructed ==
    {WithTiming(ConstructTransform(ns, tgt, FALSE), "linear", FALSE) :
        ns \in 1..MaxFam, tgt \in TransformTargets}
    \cup {WithTiming(ConstructTransform(ns, tgt, TRUE), "smooth", TRUE) :
        ns \in 1..2, tgt \in {<<"m", 0, 0>>, <<"t", 2, 0>>}}
    \cup {WithTiming(ConstructFadeOut(ns, sh, sc), tm[1], tm[2]) :
        ns \in 1..2, sh \in {0, One}, sc \in 0..2, tm \in FewTimings}
    \cup {WithTiming(Construct("VFadeIn", Fam(ns, 0, 0)), tm[1], tm[2]) :
        ns \in 1..2, tm \in Timings}
    \cup {WithTiming(Construct("VFadeInThenOut", Fam(ns, 0, 0)),
                     "there_and_back", sp) :
        ns \in 1..2, sp \in BOOLEAN}
    \cup {WithTiming(ConstructFadeTransform(kt), tm[1], tm[2]) :
        kt \in 0..1, tm \in FewTimings}
    \cup {WithTiming(ConstructShowIncreasingSubsets(ns), tm[1], tm[2]) :
        ns \in 1..MaxFam, tm \in Timings}
    \cup {WithTiming(ConstructMoveAlongPath(ns), tm[1], tm[2]) :
        ns \in 1..2, tm \in Timings}
    \cup {WithTiming(ConstructChangeDecimalToValue(st, 2 * One), tm[1], tm[2]) :
        st \in {0, One}, tm \in Timings}
    \cup {WithTiming(ConstructRotating(ns, an), tm[1], tm[2]) :
        ns \in 1..2, an \in {Turn, Turn \div 2}, tm \in Timings}
    \cup {WithTiming(ConstructPhaseFlow(ns, vt), tm[1], tm[2]) :
        ns \in 1..2, vt \in {1, 3}, tm \in FewTimings}

(* ------------- construction: reveal, one-by-one, cyclic ---------------- *)

\* The classes of node a caller may hand to a constructor; all but the plain
\* Mobject are vector-path nodes.
NodeTypes == {"Mobject", "VMobject", "DecimalNumber", "StringMobject"}

VMobjectTypes == NodeTypes \ {"Mobject"}

\* The isinstance assertions of the constructors: TRUE when none fails.
TypeAsserted(kind, node_type) ==
    CASE kind = "DrawBorderThenFill" -> node_type \in VMobjectTypes
      [] kind = "ChangeDecimalToValue" -> node_type = "DecimalNumber"
      [] OTHER -> TRUE

\* A constructor called on a node of the given class: the instance, or the
\* assertion error.
OnNodeType(an, node_type) ==
    IF TypeAsserted(an.kind, node_type)
    THEN [an EXCEPT !.node_type = node_type]
    ELSE [an EXCEPT !.node_type = node_type, !.phase = "rejected",
                    !.raised = TRUE]

\* ShowCreation(mobject, lag_ratio = 1.0)
ConstructShowCreation(ns) ==
    [Construct("ShowCreation", Fam(ns, 0, 0)) EXCEPT !.lag_ratio = One]

\* Uncreate as it would be with the rate function Animation has by default.
ConstructUncreateForward(ns, rem) ==
    [Construct("Uncreate", Fam(ns, 0, 0)) EXCEPT
        !.lag_ratio = One, !.remover = (rem # "False"), !.remover_arg = rem]

\* Uncreate(mobject, rate_func = lambda t: smooth(1 - t), remover = True);
\* rem is the remover argument the caller passes, if any.
ConstructUncreate(ns, rem) ==
    [Construct("Uncreate", Fam(ns, 0, 0)) EXCEPT
        !.lag_ratio = One, !.rate = "smooth_reversed",
        !.remover = (rem # "False"), !.remover_arg = rem]

\* DrawBorderThenFill(vmobject, rate_func = double_smooth, stroke_width): the
\* outline's stroke is one grid unit wide, the generated members' two.
ConstructDrawBorderThenFill(ns, rate) ==
    [Construct("DrawBorderThenFill", Fam(ns, 0, 0)) EXCEPT
        !.rate = rate, !.stroke_width = 1,
        !.sm_to_index = [i \in 1..ns |-> 0],
        !.swaps = [i \in 1..ns |-> 0]]

\* CyclicReplace(*mobjects); with two members it is Swap.
ConstructCyclicReplace(ns) == Construct("CyclicReplace", Fam(ns, 0, 0))

\* Rate functions that leave [0, 1] among those passed to the reveal and
\* subset animations.
RevealRateFuncs == {"linear", "smooth", "running_start", "overshoot"}

IntFuncs == {"round", "floor", "ceil"}

\* The reveal, subset and cyclic animations a caller constructs.
ConstructedReveal ==
    {WithTiming(ConstructShowCreation(ns), r, FALSE) :
        ns \in 1..2, r \in RevealRateFuncs}
    \cup {ConstructUncreate(ns, rem) :
        ns \in 1..2, rem \in {"unset", "True", "False"}}
    \cup {OnNodeType(ConstructDrawBorderThenFill(ns, r), ty) :
        ns \in 1..2, r \in {"double_smooth", "linear", "there_and_back"},
        ty \in {"VMobject", "Mobject"}}
    \cup {WithTiming(ConstructShowIncreasingSubsetsWith(ns, f), r, FALSE) :
        ns \in 0..3, f \in IntFuncs, r \in {"linear", "running_start", "overshoot"}}
    \cup {WithTiming(ConstructShowSubmobjectsOneByOne(ns, f), r, FALSE) :
        ns \in 0..3, f \in {"ceil", "round"}, r \in {"linear", "overshoot"}}
    \cup {ConstructCyclicReplace(ns) : ns \in 1..(MaxFam - 1)}
    \cup {OnNodeType(WithTiming(Construct(k, Fam(1, 0, 0)), "linear", FALSE), ty) :
        k \in {"VFadeIn", "VFadeInThenOut"}, ty \in {"VMobject", "Mobject"}}
    \cup {OnNodeType(ConstructChangeDecimalToValue(0, One), ty) :
        ty \in {"DecimalNumber", "VMobject"}}

(* --------------------------- the state machine ------------------------- *)

(***************************************************************************)
(* anim is an animation in play; replay is an identically constructed      *)
(* animation on an identical node that receives the same calls with the    *)
(* same alphas, each call at its own wall-clock time.  last_call is the    *)
(* call made last.                                                         *)
(***************************************************************************)
VARIABLES anim, replay, last_call

vars == <<anim, replay, last_call>>

Call(op, alpha) == [op |-> op, alpha |-> alpha]

Init ==
    /\ anim \in Constructed
    /\ replay = anim
    /\ last_call = Call("construct", 0)

\* The caller calls begin(): on a fresh animation or on a finished one.
Begin ==
    /\ anim.phase \in {"constructed", "finished"}
    /\ anim' = begin(anim)
    /\ replay' = begin(replay)
    /\ last_call' = Call("begin", 0)

\* The caller calls update(alpha): during the run or, out of order, before
\* begin.
Update ==
    /\ anim.phase \in {"constructed", "begun"}
    /\ \E alpha \in Alphas, nowA \in Clock, nowB \in Clock :
        /\ anim' = update(anim, alpha, nowA)
        /\ replay' = update(replay, alpha, nowB)
        /\ last_call' = Call("update", alpha)

\* The caller calls finish(), begun or not.
Finish ==
    /\ anim.phase \in {"constructed", "begun"}
    /\ \E nowA \in Clock, nowB \in Clock :
        /\ anim' = finish(anim, nowA)
        /\ replay' = finish(replay, nowB)
    /\ last_call' = Call("finish", 0)

\* The scene calls clean_up_from_scene once the animation has finished.
CleanUp ==
    /\ anim.phase = "finished"
    /\ ~anim.cleaned
    /\ anim' = clean_up_from_scene(anim)
    /\ replay' = clean_up_from_scene(replay)
    /\ last_call' = Call("clean_up", 0)

Next == Begin \/ Update \/ Finish \/ CleanUp

Spec == Init /\ [][Next]_vars

\* The same lifecycle, driven on a reveal, subset or cyclic animation.
InitReveal ==
    /\ anim \in ConstructedReveal
    /\ replay = anim
    /\ last_call = Call("construct", 0)

SpecReveal == InitReveal /\ [][Next]_vars

(* ----------------------- lagged combinators ---------------------------- *)

(***************************************************************************)
(* A combinator is a record g: the run times of its children in order (in  *)
(* units of 1/One of a second), its lag_ratio, the time windows            *)
(* <<start, end>> it assigned to the children at construction and the     *)
(* latest end among them.  locals holds the local alpha each child was     *)
(* last updated with.                                                      *)
(***************************************************************************)

\* AnimationGroup.build_animations_with_timings: each child starts at the
\* current time and the current time moves on by lag_ratio of its run.
RECURSIVE build_animations_with_timings(_, _, _)
build_animations_with_timings(run_times, lag_ratio, curr_time) ==
    IF run_times = <<>> THEN <<>>
    ELSE LET start_time == curr_time
             end_time == start_time + Head(run_times)
         IN  <<<<start_time, end_time>>>> \o
             build_animations_with_timings(
                 Tail(run_times), lag_ratio,
                 interpolate(start_time, end_time, lag_ratio))

\* The latest end time among the windows.
RECURSIVE MaxEnd(_)
MaxEnd(timings) ==
    IF timings = <<>> THEN 0
    ELSE Max(timings[1][2], MaxEnd(Tail(timings)))

\* AnimationGroup.__init__(*animations, lag_ratio, remover)
ConstructGroup(kind, run_times, lag_ratio, rem) ==
    LET timings == build_animations_with_timings(run_times, lag_ratio, 0)
    IN  [kind |-> kind, run_times |-> run_times, lag_ratio |-> lag_ratio,
         timings |-> timings, max_end_time |-> MaxEnd(timings),
         remover |-> rem, phase |-> "constructed", raised |-> FALSE,
         locals |-> [i \in DOMAIN run_times |-> 0]]

\* Broadcast as it would be if its first ripple ran twice as long as the rest.
ConstructBroadcastUneven(n_circles, lag_ratio) ==
    ConstructGroup("Broadcast",
                   [x \in 1..n_circles |-> IF x = 1 THEN 2 * One ELSE One],
                   lag_ratio, TRUE)

\* Broadcast(focal_point, n_circles, lag_ratio): a LaggedStart of one
\* Restore per circle, each of the run time an animation has by default.
ConstructBroadcast(n_circles, lag_ratio) ==
    ConstructGroup("Broadcast", [x \in 1..n_circles |-> One], lag_ratio, TRUE)

\* AnimationGroup.interpolate(alpha): the local alpha handed to each child.
GroupInterpolate(g, alpha) ==
    LET time == interpolate(0, g.max_end_time, alpha)
        sub_alpha(i) ==
            LET start_time == g.timings[i][1]
                anim_time == g.timings[i][2] - start_time
            IN  IF anim_time = 0 THEN 0
                ELSE clip(((time - start_time) * One) \div anim_time, 0, One)
    IN  [g EXCEPT !.locals = [i \in DOMAIN g.timings |-> sub_alpha(i)]]

\* The combinators a caller constructs.
ConstructedGroups ==
    {ConstructBroadcast(n, lag) : n \in 1..MaxChildren, lag \in 0..One}

InitGroup ==
    /\ anim \in ConstructedGroups
    /\ replay = anim
    /\ last_call = Call("construct", 0)

\* The scene begins the combinator, and with it every child.
GroupBegin ==
    /\ anim.phase = "constructed"
    /\ anim' = [anim EXCEPT !.phase = "begun"]
    /\ replay' = anim'
    /\ last_call' = Call("begin", 0)

\* The scene updates the combinator at a global alpha.
GroupUpdate ==
    /\ anim.phase = "begun"
    /\ \E alpha \in Alphas :
        /\ anim' = GroupInterpolate(anim, alpha)
        /\ last_call' = Call("update", alpha)
    /\ replay' = anim'

\* The scene finishes the combinator: a last update at alpha 1.
GroupFinish ==
    /\ anim.phase = "begun"
    /\ anim' = [GroupInterpolate(anim, One) EXCEPT !.phase = "finished"]
    /\ replay' = anim'
    /\ last_call' = Call("finish", One)

NextGroup == GroupBegin \/ GroupUpdate \/ GroupFinish

SpecGroup == InitGroup /\ [][NextGroup]_vars

(* ------------------------ construction as a call ----------------------- *)

\* ReplacementTransform(mobject, target_mobject): a Transform whose class
\* attribute replace_mobject_with_target_in_scene is True.
ConstructReplacementTransform(ns, tgt) ==
    [ConstructTransform(ns, tgt, FALSE) EXCEPT
        !.kind = "ReplacementTransform",
        !.replace_mobject_with_target_in_scene = TRUE]

\* GrowFromCenter(mobject): the growth point is the centre the node has when
\* the constructor runs.
ConstructGrowFromCenter(node) ==
    [Construct("GrowFromCenter", node.fam) EXCEPT !.point = get_center(node)]

\* FadeIn(mobject, shift, scale)
ConstructFadeIn(ns, shift_vect, scale_factor) ==
    [Construct("FadeIn", Fam(ns, 0, 0)) EXCEPT
        !.shift_vect = shift_vect, !.scale_factor = scale_factor]

\* Homotopy(homotopy, mobject)
ConstructHomotopy(ns) == Construct("Homotopy", Fam(ns, 0, 0))

(***************************************************************************)
(* A constructor call that has not run yet: the class, the node the caller *)
(* passes (given), the state that node has saved (given_saved) and one     *)
(* further argument.  Once the constructor has run, given and given_saved  *)
(* stay on the instance as a record of what the caller passed, and changed *)
(* tells whether the caller has changed the node since.                    *)
(***************************************************************************)
Unbuilt(kind, node, saved, arg) ==
    [phase |-> "unbuilt", kind |-> kind, given |-> node, given_saved |-> saved,
     arg |-> arg, raised |-> FALSE]

\* The state a node has saved when save_state was never called on it.
NeverSaved == Member(1, 0, 0, 0, 0)

\* The instance the constructor call u returns.
ConstructorCall(u) ==
    LET ns == Len(u.given.fam)
    IN  CASE u.kind = "FadeTransform" -> ConstructFadeTransform(u.arg)
          [] u.kind = "Transform" -> ConstructTransform(ns, <<"t", u.arg, 0>>, FALSE)
          [] u.kind = "ReplacementTransform"
                -> ConstructReplacementTransform(ns, <<"t", u.arg, 0>>)
          [] u.kind = "GrowFromCenter" -> ConstructGrowFromCenter(u.given)
          [] u.kind = "ChangeDecimalToValue"
                -> ConstructChangeDecimalToValue(u.given.value, u.arg)
          [] u.kind = "ShowIncreasingSubsets" -> ConstructShowIncreasingSubsets(ns)
          [] u.kind = "FadeIn" -> ConstructFadeIn(ns, One, u.arg)
          [] u.kind = "Homotopy" -> ConstructHomotopy(ns)
          [] u.kind = "Rotating" -> ConstructRotating(ns, u.arg)
          [] u.kind = "PhaseFlow" -> ConstructPhaseFlow(ns, u.arg)
          [] u.kind = "DrawBorderThenFill"
                -> ConstructDrawBorderThenFill(ns, "double_smooth")

\* The instance with the record of the call; only FadeTransform's
\* constructor calls save_state on the caller's node.
Built(u) ==
    LET an == ConstructorCall(u)
        extra == {"given", "given_saved", "changed"}
    IN  [f \in DOMAIN an \cup extra |->
            CASE f = "given" -> u.given
              [] f = "given_saved" -> u.given_saved
              [] f = "changed" -> FALSE
              [] f = "saved_state" ->
                    IF u.kind = "FadeTransform" THEN an.saved_state
                    ELSE u.given_saved
              [] OTHER -> an[f]]

\* The caller's node as the instance holds it: FadeTransform animates a
\* group of the node and a copy of the target, the others the node itself.
CallerNode(an) ==
    IF an.kind = "FadeTransform"
    THEN SetFam(an.heap["m"], <<an.heap["m"].fam[1]>>)
    ELSE an.heap["m"]

\* The instance once the caller's node has become n.
WithCallerNode(an, n) ==
    IF an.kind = "FadeTransform"
    THEN [an EXCEPT !.heap["m"].fam[1] = n.fam[1]]
    ELSE [an EXCEPT !.heap["m"] = n]

\* The constructor calls a caller makes.
UnbuiltCalls ==
    {Unbuilt("FadeTransform", Node(Fam(1, 0, 0), 0, FALSE), sv, kt) :
        sv \in {NeverSaved, Member(1, 40, 2, 0, One)}, kt \in 0..1}
    \cup {Unbuilt(k, Node(Fam(ns, 0, 0), 0, FALSE), NeverSaved, nt) :
        k \in {"Transform", "ReplacementTransform"}, ns \in 1..2, nt \in 1..3}
    \cup {Unbuilt("GrowFromCenter", Node(Fam(ns, 0, 0), 0, FALSE), NeverSaved, 0) :
        ns \in 1..2}
    \cup {Unbuilt("ChangeDecimalToValue", Node(Fam(1, 0, 0), v, FALSE),
                  NeverSaved, 2 * One) : v \in {0, One}}
    \cup {Unbuilt("ShowIncreasingSubsets", Node(Fam(ns, 0, 0), 0, FALSE),
                  NeverSaved, 0) : ns \in 1..3}
    \cup {Unbuilt("FadeIn", Node(Fam(1, 0, 0), 0, FALSE), NeverSaved, sc) :
        sc \in 0..1}
    \cup {Unbuilt(k, Node(Fam(ns, 0, 0), 0, FALSE), NeverSaved, 0) :
        k \in {"Homotopy", "DrawBorderThenFill"}, ns \in 1..2}
    \cup {Unbuilt("Rotating", Node(Fam(1, 0, 0), 0, FALSE), NeverSaved, Turn \div 2)}
    \cup {Unbuilt("PhaseFlow", Node(Fam(1, 0, 0), 0, FALSE), NeverSaved, vt) :
        vt \in {1, 3}}

\* A timing curve of the library about to be called: a plain curve,
\* lingering, or squish_rate_func(func, a, b).
Curve(kind, func, a, b) ==
    [phase |-> "curve", kind |-> kind, func |-> func, a |-> a, b |-> b,
     t |-> 0, value |-> 0, called |-> FALSE, raised |-> FALSE]

\* The value the curve c returns at t.
CurveValue(c, t) ==
    CASE c.kind = "squish_rate_func" -> squish_rate_func(c.func, c.a, c.b, t)
      [] c.kind = "lingering" -> lingering(t)
      [] OTHER -> PlainCurve(c.kind, t)

\* simple_functions.get_norm in one dimension.
get_norm(vect) == IF vect >= 0 THEN vect ELSE -vect

\* Brace.get_direction: vect / get_norm(vect); for the zero vector the array
\* division is 0 / 0 and yields nan, with a warning.
get_direction(tip, center) ==
    LET vect == tip - center
    IN  IF get_norm(vect) = 0 THEN [nan |-> TRUE, unit |-> 0]
        ELSE [nan |-> FALSE, unit |-> vect \div get_norm(vect)]

\* A brace with its tip and its centre, and the direction last returned.
BraceAt(tip, center) ==
    [phase |-> "brace", kind |-> "Brace", tip |-> tip, center |-> center,
     direction |-> [nan |-> FALSE, unit |-> 0], called |-> FALSE, raised |-> FALSE]

\* A value a cached function returns: None, or a number.
None == [none |-> TRUE, v |-> 0]

Value(v) == [none |-> FALSE, v |-> v]

\* The arguments the cached function is called with.
CachedArgs == 0..2

\* The decorated function, on its n-th run with the argument arg: a function
\* whose result tells the runs apart, one that returns None, and one that
\* returns None on its first run only.
func(arg, n) ==
    CASE arg = 0 -> Value(n)
      [] arg = 1 -> None
      [] arg = 2 -> IF n = 1 THEN None ELSE Value(n)

\* An entry of the disk cache.
Absent == [present |-> FALSE, value |-> None]

\* The module's _cache with a decorated function: the entries by key, how
\* often the function has run for each argument, the value last returned,
\* and for each argument the value first returned since the cache was last
\* cleared.
DiskCache ==
    [phase |-> "cache", kind |-> "cache_on_disk",
     cache |-> [a \in CachedArgs |-> Absent],
     invoked |-> [a \in CachedArgs |-> 0],
     returned |-> None,
     first |-> [a \in CachedArgs |-> Absent],
     raised |-> FALSE]

\* cache_on_disk's wrapper: the key is the hash of the function's name and
\* arguments (one key per argument); _cache.get answers None for a key it
\* does not hold, and the stored value otherwise.
wrapper(c, arg) ==
    LET key == arg
        value == IF c.cache[key].present THEN c.cache[key].value ELSE None
    IN  IF value.none
        THEN LET n == c.invoked[arg] + 1
                 computed == func(arg, n)
             IN  [c EXCEPT !.invoked[arg] = n,
                           !.cache[key] = [present |-> TRUE, value |-> computed],
                           !.returned = computed]
        ELSE [c EXCEPT !.returned = value]

\* clear_cache: _cache.clear()
clear_cache(c) == [c EXCEPT !.cache = [a \in CachedArgs |-> Absent]]

\* The library objects a caller uses.
LibraryCalls ==
    {DiskCache} \cup
    {Curve(k, "none", 0, 0) : k \in PlainCurves \cup {"lingering"}}
    \cup {Curve("squish_rate_func", f, a, b) :
        f \in RateFuncs, a \in Alphas, b \in Alphas}
    \cup {BraceAt(tip, center) : tip \in 0..2, center \in 0..2}

\* What a caller may do to its node between two calls: move it, change its
\* numeric value, or drop its last child.
CallerChanges == {"shift", "set_value", "remove"}

ApplyChange(n, change) ==
    CASE change = "shift" -> shift(n, One)
      [] change = "set_value" -> set_value(n, n.value + 1)
      [] change = "remove" -> set_submobjects(n, SubSeq(n.fam, 1, Len(n.fam) - 1))

InitLib ==
    /\ anim \in UnbuiltCalls \cup LibraryCalls
    /\ replay = anim
    /\ last_call = Call("none", 0)

\* The caller runs the constructor.
ConstructCall ==
    /\ anim.phase = "unbuilt"
    /\ anim' = Built(anim)
    /\ replay' = anim'
    /\ last_call' = Call("construct", 0)

\* The children ShowIncreasingSubsets keeps in all_submobs are the node's
\* children themselves, not copies of them: moving the node moves them too.
WithHeldChildren(an, change) ==
    IF an.kind = "ShowIncreasingSubsets" /\ change = "shift"
    THEN [an EXCEPT !.all_submobs = shift(SetFam(an.heap["m"], @), One).fam]
    ELSE an

\* The caller changes its node after constructing the animation and before
\* beginning it.
CallerChange ==
    /\ anim.phase = "constructed"
    /\ ~anim.changed
    /\ \E change \in CallerChanges :
        /\ change = "remove" => Len(CallerNode(anim).fam) >= 2
        /\ anim' = [WithHeldChildren(
                        WithCallerNode(anim, ApplyChange(CallerNode(anim), change)),
                        change)
                        EXCEPT !.changed = TRUE]
    /\ replay' = anim'
    /\ last_call' = Call("change", 0)

\* The caller evaluates the timing curve at some t.
CallCurve ==
    /\ anim.phase = "curve"
    /\ \E t \in Alphas :
        /\ anim' = [anim EXCEPT !.t = t, !.value = CurveValue(anim, t),
                                !.called = TRUE]
        /\ last_call' = Call("curve", t)
    /\ replay' = anim'

\* The caller asks the brace for its direction.
GetDirection ==
    /\ anim.phase = "brace"
    /\ anim' = [anim EXCEPT !.direction = get_direction(anim.tip, anim.center),
                            !.called = TRUE]
    /\ replay' = anim'
    /\ last_call' = Call("get_direction", 0)

\* The caller calls the decorated function.
CachedCall ==
    /\ anim.phase = "cache"
    /\ \E arg \in CachedArgs :
        /\ anim.invoked[arg] < MaxInvocations
        /\ LET c == wrapper(anim, arg)
           IN  anim' = IF anim.first[arg].present THEN c
                       ELSE [c EXCEPT !.first[arg] =
                                [present |-> TRUE, value |-> c.returned]]
        /\ last_call' = Call("cached_call", arg)
    /\ replay' = anim'

\* The caller clears the cache.
ClearCache ==
    /\ anim.phase = "cache"
    /\ anim' = [clear_cache(anim) EXCEPT
                    !.first = [a \in CachedArgs |-> Absent]]
    /\ replay' = anim'
    /\ last_call' = Call("clear_cache", 0)

NextLib ==
    \/ ConstructCall \/ CallerChange \/ Begin \/ Update \/ Finish \/ CleanUp
    \/ CallCurve \/ GetDirection \/ CachedCall \/ ClearCache

SpecLib == InitLib /\ [][NextLib]_vars

(* ------------------------------ claims --------------------------------- *)

\* The caller's next call is op, made on an animation in the current state.
Calls(op) == last_call'.op = op

\* C1: calling update or finish on an animation that has not begun raises
\* and leaves the node and the scene unchanged.
C1_LifecycleOrderRaises ==
    [][(anim.phase = "constructed" /\ (Calls("update") \/ Calls("finish")))
        => (/\ anim'.raised
            /\ anim'.heap["m"] = anim.heap["m"]
            /\ anim'.scene = anim.scene)]_vars

\* C2: Transform.begin resolves the target with create_target when begin is
\* called and, when there is none, raises with nothing changed: no node is
\* aligned, snapshotted or locked, and no begun Transform lacks a target.
C2_BeginValidatesTarget ==
    [][/\ (/\ Calls("begin")
           /\ anim.kind \in TransformKinds
           /\ create_target(anim).target_mobject = "none")
          => (/\ anim'.raised
              /\ anim'.heap = anim.heap
              /\ anim'.starting_mobject = anim.starting_mobject
              /\ anim'.target_copy = anim.target_copy
              /\ anim'.phase = anim.phase)
       /\ (anim'.kind \in TransformKinds /\ anim'.phase = "begun")
          => (anim'.target_mobject # "none" /\ anim'.target_copy # "none")]_vars

\* C2 witness: begin has just raised on a Transform constructed without target.
C2_Witness ==
    /\ last_call.op = "begin"
    /\ anim.kind = "Transform"
    /\ anim.target_mobject = "none"
    /\ anim.raised
    /\ anim.phase = "constructed"

\* C3: Transform.begin leaves the family of the caller-supplied target as it
\* was, whether the node was aligned with it or not.
C3_BeginKeepsTarget ==
    [][(Calls("begin") /\ anim.kind = "Transform" /\ anim.target_mobject # "none")
        => anim'.heap[anim.target_mobject].fam = anim.heap[anim.target_mobject].fam]_vars

\* C3 witness: begin took the not-aligned branch and alignment restructured
\* the copy, which now differs from the target.
C3_Witness ==
    /\ last_call.op = "begin"
    /\ anim.kind = "Transform"
    /\ anim.target_mobject = "t"
    /\ anim.target_copy = "tc"
    /\ anim.heap["tc"].fam # anim.heap["t"].fam

\* The three nodes get_all_families_zipped zips have congruent families.
Congruent(an) ==
    LET m == an.heap["m"]
        s == an.heap[an.starting_mobject]
        c == an.heap[an.target_copy]
    IN  /\ Len(m.fam) = Len(s.fam)
        /\ Len(m.fam) = Len(c.fam)
        /\ \A i \in DOMAIN m.fam :
              m.fam[i].nseg = s.fam[i].nseg /\ m.fam[i].nseg = c.fam[i].nseg

\* C4: from begin on, through every update and finish, the node, its
\* starting snapshot and target_copy have equally many family members and
\* pairwise equal segment counts.
C4_FamiliesCongruent ==
    (anim.kind \in TransformKinds /\ anim.phase \in {"begun", "finished"})
        => Congruent(anim)

\* C4 witness: an update has run on a Transform whose target had another
\* family size than the node.
C4_Witness ==
    /\ last_call.op = "update"
    /\ anim.kind = "Transform"
    /\ anim.phase = "begun"
    /\ anim.target_copy = "tc"
    /\ Len(anim.heap["t"].fam) # Len(anim.heap["tc"].fam)

\* Members a and b agree on every data channel (segment counts apart).
SameGeometry(a, b) == \A c \in Channels : a[c] = b[c]

\* new is old padded to k members: old's members in order, then old's last
\* member repeated.
PaddedFrom(new, old, k) ==
    /\ Len(new) = k
    /\ \A i \in 1..k :
          SameGeometry(new[i], old[IF i <= Len(old) THEN i ELSE Len(old)])

\* C5: when node and target differ in family size, begin pads the smaller
\* one with copies of its last member up to the larger size, the original
\* members keeping their order; the snapshot is the padded node.  A 3-member
\* node and a 5-member target give an aligned start of 5 members whose last
\* two are copies of the 3rd.
C5_PadsWithLastMember ==
    [][(Calls("begin") /\ anim.kind = "Transform" /\ anim.target_mobject = "t")
        => LET old == anim.heap["m"].fam
               tgt == anim.heap["t"].fam
               k == Max(Len(old), Len(tgt))
           IN  /\ PaddedFrom(anim'.heap["m"].fam, old, k)
               /\ PaddedFrom(anim'.heap["s"].fam, old, k)
               /\ PaddedFrom(anim'.heap[anim'.target_copy].fam, tgt, k)]_vars

\* C5 witness: the snapshot of a begun Transform has 5 members, the last three
\* at one place: a 3-member node was padded for a 5-member target.
C5_Witness ==
    /\ last_call.op = "begin"
    /\ anim.kind = "Transform"
    /\ Len(anim.heap["t"].fam) = 5
    /\ Len(anim.heap["s"].fam) = 5
    /\ SameGeometry(anim.heap["s"].fam[4], anim.heap["s"].fam[3])
    /\ SameGeometry(anim.heap["s"].fam[5], anim.heap["s"].fam[3])
    /\ ~SameGeometry(anim.heap["s"].fam[3], anim.heap["s"].fam[2])

\* C6: when the node is already aligned with the target at begin (also when
\* it is the target), begin leaves both families as they were, and aligning
\* the pair that any begin produced changes nothing.
C6_AlignmentIdempotent ==
    [][(Calls("begin") /\ anim.kind = "Transform" /\ anim.target_mobject # "none")
        => LET tgt == anim.target_mobject
               m2 == anim'.heap["m"]
               c2 == anim'.heap[anim'.target_copy]
           IN  /\ is_aligned_with(anim.heap["m"], anim.heap[tgt])
                  => (/\ m2.fam = anim.heap["m"].fam
                      /\ anim'.heap[tgt].fam = anim.heap[tgt].fam
                      /\ c2.fam = anim.heap[tgt].fam)
               /\ align_data_and_family(m2, c2) = <<m2, c2>>]_vars

\* C6 witness: begin has run on a Transform whose target is another node of
\* the same shape, so target_copy is the target itself.
C6_Witness ==
    /\ last_call.op = "begin"
    /\ anim.kind = "Transform"
    /\ anim.target_mobject = "t"
    /\ anim.target_copy = "t"
    /\ anim.phase = "begun"

\* C7: every variant mutates the node with rate_func applied to the
\* time-spanned alpha: the value each member is mutated with by an update of
\* a begun animation (members not staggered: lag_ratio is 0) is
\* rate_func(time_spanned_alpha(alpha)).
C7_TimingAppliedOnce ==
    (last_call.op = "update" /\ anim.phase = "begun" /\ ~anim.raised)
        => \A i \in DOMAIN anim.used :
              anim.used[i] = rate_func(anim, time_spanned_alpha(anim, last_call.alpha))

\* The family and value of the animated node.
NodeState(an) == <<an.heap["m"].fam, an.heap["m"].value>>

\* C8 as stated: the node state right after a finish that succeeded is the
\* state update(1) produces from the state before it.
C8_FinishUpdatesAtOne ==
    [][(Calls("finish") /\ ~anim'.raised)
        => NodeState(anim') = NodeState(update(anim, One, 0))]_vars

\* C8 amended: the node state right after a finish that succeeded is the
\* state update(final_alpha_value) produces, final_alpha_value being 0 for
\* FadeOut, one half for VFadeInThenOut and 1 for the other variants.
C8_FinishUpdatesAtFinalAlpha ==
    [][(Calls("finish") /\ ~anim'.raised)
        => LET final == CASE anim.kind = "FadeOut" -> 0
                          [] anim.kind = "VFadeInThenOut" -> One \div 2
                          [] OTHER -> One
           IN  NodeState(anim') = NodeState(update(anim, final, 0))]_vars

\* C8 witness: a FadeOut has finished after an update that had changed the
\* node, and the node is back in its starting state, not in the target's.
C8_Witness ==
    /\ last_call.op = "finish"
    /\ anim.kind = "FadeOut"
    /\ anim.phase = "finished"
    /\ anim.heap["m"].fam = anim.heap["s"].fam
    /\ anim.heap["m"].fam # anim.heap[anim.target_copy].fam

C10_SnapshotAsCaptured ==
    anim.starting_mobject # "none" => anim.heap["s"] = anim.captured

\* C10 amended: once begin has returned, no update and no finish writes to
\* the snapshot; and but for FadeTransform, whose begin ghosts the snapshot's
\* second member after capturing it, the snapshot is what it was at capture.
C10_SnapshotFrozenAfterBegin ==
    [][/\ (anim.phase = "begun" /\ (Calls("update") \/ Calls("finish")))
          => anim'.heap["s"] = anim.heap["s"]
       /\ (anim'.kind # "FadeTransform" /\ anim'.starting_mobject # "none")
          => anim'.heap["s"] = anim'.captured]_vars

\* C10 witness: an update has run on a begun FadeTransform whose snapshot
\* differs from what was captured.
C10_Witness ==
    /\ last_call.op = "update"
    /\ anim.kind = "FadeTransform"
    /\ anim.phase = "begun"
    /\ anim.heap["s"] # anim.captured
    /\ anim.heap["m"].fam # anim.heap["s"].fam

\* C11: the animated node has locked data only between begin and finish:
\* none before the first begin and none once finish has returned, whether
\* begin took the lock or skipped it because the node has updaters.
C11_LockOnlyWhileRunning ==
    anim.phase \in {"constructed", "finished"} => anim.heap["m"].locked = {}

\* C11 witness: finish has returned on a Transform whose begin had locked
\* the channels on which snapshot and target copy agree.
C11_Witness ==
    /\ last_call.op = "finish"
    /\ anim.kind = "Transform"
    /\ anim.phase = "finished"
    /\ ~has_updaters(anim.heap["m"])
    /\ matching_channels(anim.heap["s"], anim.heap[anim.target_copy]) # {}
    /\ anim.heap["m"].locked = {}

\* C12: an animation abandoned after begin and any number of updates leaves
\* no begin-time marker on its node: no locked data and no animating-status
\* flag.
C12_AbandonLeavesNoMarker ==
    (anim.phase = "begun" /\ last_call.op \in {"begin", "update"})
        => (/\ anim.heap["m"].locked = {}
            /\ ~anim.heap["m"].animating)

\* C13: whatever the progress value and the rounding function, the index
\* that ShowIncreasingSubsets and ShowSubmobjectsOneByOne hand to the child
\* list lies in the list's valid range, and ShowSubmobjectsOneByOne then
\* shows exactly one child.
C13_IndexClamped ==
    (/\ last_call.op \in {"update", "finish"}
     /\ anim.kind \in {"ShowIncreasingSubsets", "ShowSubmobjectsOneByOne"}
     /\ anim.phase \in {"begun", "finished"}
     /\ ~anim.raised)
        => LET n == Len(anim.all_submobs)
           IN  /\ \A k \in DOMAIN anim.list_index :
                     /\ anim.list_index[k] >= 0
                     /\ anim.list_index[k] <= n
               /\ (anim.kind = "ShowSubmobjectsOneByOne" /\ n >= 1)
                     => Len(anim.heap["m"].fam) = 1

\* C14: the bounds ShowPartial.interpolate_submobject passes to
\* pointwise_become_partial satisfy 0 <= lower <= upper <= 1 whatever the
\* local alpha, and ShowCreation's bounds are (0,0) at 0 and (0,1) at 1.
C14_BoundsOrdered ==
    /\ ShowCreationGetBounds(0) = <<0, 0>>
    /\ ShowCreationGetBounds(One) = <<0, One>>
    /\ (/\ last_call.op \in {"update", "finish"}
        /\ anim.kind \in PartialKinds
        /\ ~anim.raised)
           => \A i \in DOMAIN anim.bounds :
                 /\ 0 <= anim.bounds[i][1]
                 /\ anim.bounds[i][1] <= anim.bounds[i][2]
                 /\ anim.bounds[i][2] <= One

\* C15 as stated: a ShowCreation on a single node, updated at global alpha
\* a, asks the node to show the bounds (0, a).
C15_BoundsAreAlpha ==
    (/\ last_call.op = "update"
     /\ anim.kind = "ShowCreation"
     /\ anim.phase = "begun"
     /\ Len(anim.heap["m"].fam) = 1)
        => anim.bounds = << <<0, last_call.alpha>> >>

\* Rate functions that never decrease.
Monotone == {"linear", "smooth"}

\* C15 amended: a ShowCreation on a single node, updated at global alpha a,
\* shows the bounds (0, rate_func(a)), which is (0, a) when the rate
\* function is linear; with a rate function that never decreases, every
\* member's upper bound never decreases over updates with non-decreasing
\* alpha, and every lower bound is 0.
C15_BoundsFollowRateFunc ==
    [][(Calls("update") /\ anim.kind = "ShowCreation" /\ anim.phase = "begun")
        => LET a == last_call'.alpha
               eased == CASE anim.rate = "linear" -> a
                          [] anim.rate = "smooth" -> smooth(a)
                          [] anim.rate = "running_start" -> running_start(a)
                          [] anim.rate = "overshoot" -> overshoot(a)
           IN  /\ Len(anim.heap["m"].fam) = 1
                  => (/\ anim'.bounds = << <<0, eased>> >>
                      /\ anim'.heap["m"].fam[1].vis = <<0, eased>>)
               /\ \A i \in DOMAIN anim'.bounds : anim'.bounds[i][1] = 0
               /\ (/\ anim.rate \in Monotone
                   /\ last_call.op = "update"
                   /\ last_call.alpha <= a)
                  => \A i \in DOMAIN anim'.bounds :
                        anim'.bounds[i][2] >= anim.bounds[i][2]]_vars

\* C15 witness: a linear ShowCreation on a single node has been updated
\* part of the way and shows the path up to that alpha.
C15_Witness ==
    /\ last_call.op = "update"
    /\ anim.kind = "ShowCreation"
    /\ anim.rate = "linear"
    /\ anim.phase = "begun"
    /\ last_call.alpha \notin {0, One}
    /\ Len(anim.heap["m"].fam) = 1
    /\ anim.heap["m"].fam[1].vis = <<0, last_call.alpha>>

\* C16: at global alpha a, Uncreate on a single node shows the bounds
\* ShowCreation's function gives for smooth(1 - a): all of the path at 0,
\* none of it at 1 and once finished; it is a remover unless the caller
\* passed remover = False, and then clean-up takes the node out of the scene.
C16_UncreateReverses ==
    anim.kind = "Uncreate"
        => /\ (last_call.op = "update" /\ anim.phase = "begun")
              => (/\ \A i \in DOMAIN anim.bounds : anim.bounds[i][1] = 0
                  /\ Len(anim.heap["m"].fam) = 1
                     => anim.bounds = << <<0, smooth(One - last_call.alpha)>> >>
                  /\ last_call.alpha = 0
                     => \A i \in DOMAIN anim.bounds : anim.bounds[i] = <<0, One>>
                  /\ last_call.alpha = One
                     => \A i \in DOMAIN anim.bounds : anim.bounds[i] = <<0, 0>>)
           /\ anim.phase = "finished"
              => \A i \in DOMAIN anim.heap["m"].fam :
                    anim.heap["m"].fam[i].vis = <<0, 0>>
           /\ anim.remover = (anim.remover_arg # "False")
           /\ anim.cleaned => (("m" \notin anim.scene) = (anim.remover_arg # "False"))

\* C16 witness: an Uncreate built without a remover argument has run to its
\* end and clean-up has taken the emptied node out of the scene.
C16_Witness ==
    /\ anim.kind = "Uncreate"
    /\ anim.remover_arg = "unset"
    /\ anim.cleaned
    /\ "m" \notin anim.scene
    /\ anim.heap["m"].fam[1].vis = <<0, 0>>

\* C17: in DrawBorderThenFill a member's data is replaced by the outline's
\* at most once, at an update whose local alpha is at least one half and by
\* every such update if not before; an update with local alpha below one
\* half reveals the outline up to twice the local alpha and replaces
\* nothing; an update with local alpha of one half or more leaves the
\* interpolation of outline and starting state.
C17_OutlineSwappedOnce ==
    [][IF anim.kind = "DrawBorderThenFill" /\ anim.phase = "begun"
          /\ (Calls("update") \/ Calls("finish"))
       THEN \A i \in DOMAIN anim.swaps :
               LET sub == anim'.used[i]
                   outline == anim.heap["o"].fam[i]
                   start == anim.heap["s"].fam[i]
                   residue == IF sub >= One THEN One ELSE 2 * sub - One
               IN  IF 2 * sub < One
                   THEN /\ anim'.swaps[i] = anim.swaps[i]
                        /\ anim'.heap["m"].fam[i] =
                              [anim.heap["m"].fam[i] EXCEPT
                                  !.nseg = outline.nseg, !.pos = outline.pos,
                                  !.vis = <<0, IF sub <= 0 THEN 0 ELSE 2 * sub>>]
                   ELSE /\ anim'.swaps[i] = 1
                        /\ anim'.heap["m"].fam[i].op =
                              interpolate(outline.op, start.op, residue)
                        /\ anim'.heap["m"].fam[i].width =
                              interpolate(outline.width, start.width, residue)
                        /\ anim'.heap["m"].fam[i].pos =
                              interpolate(outline.pos, start.pos, residue)
                        /\ anim'.heap["m"].fam[i].vis = outline.vis
       ELSE anim'.swaps = anim.swaps]_vars

\* C17 witness: a DrawBorderThenFill updated in its second half has swapped
\* its first member's data once and holds a style between outline and start.
C17_Witness ==
    /\ last_call.op = "update"
    /\ anim.kind = "DrawBorderThenFill"
    /\ anim.phase = "begun"
    /\ anim.swaps[1] = 1
    /\ anim.heap["m"].fam[1].op > anim.heap["o"].fam[1].op
    /\ anim.heap["m"].fam[1].op < anim.heap["s"].fam[1].op

\* C18: CyclicReplace's target puts member i at the starting position of
\* member i-1 (mod n), so the targets are a cyclic permutation of the
\* starting positions.
C18_TargetIsPredecessor ==
    [][(Calls("begin") /\ anim.kind = "CyclicReplace" /\ ~anim'.raised)
        => LET n == Len(anim.heap["m"].fam)
               target == anim'.heap[anim'.target_mobject].fam
           IN  /\ Len(target) = n
               /\ \A i \in 1..n :
                     target[i].pos = anim.heap["m"].fam[((i + n - 2) % n) + 1].pos]_vars

\* The node classes each constructor is said to support.
TypeSupported(kind, node_type) ==
    CASE kind \in {"DrawBorderThenFill", "VFadeIn", "VFadeInThenOut"}
            -> node_type \in VMobjectTypes
      [] kind = "ChangeDecimalToValue" -> node_type = "DecimalNumber"
      [] OTHER -> TRUE

\* C20: an animation constructed on a node of a class it does not support
\* is rejected at construction: no instance of it exists to begin or update.
C20_WrongNodeTypeRejected ==
    ~TypeSupported(anim.kind, anim.node_type) => anim.phase = "rejected"

\* C19: in a lagged combinator with lag_ratio > 0 the first child's window
\* starts at global alpha 0, window starts strictly increase with the child
\* index, every window lies within the whole run, the last child's window
\* ends exactly at global alpha 1, and a child updated at a global alpha not
\* after its window's start gets local alpha 0, not before its end gets 1.
C19_LaggedWindows ==
    (anim.lag_ratio > 0)
        => LET n == Len(anim.timings)
               total == anim.max_end_time
               start(i) == anim.timings[i][1]
               stop(i) == anim.timings[i][2]
           IN  /\ n = Len(anim.run_times)
               /\ start(1) = 0
               /\ \A i \in 1..(n - 1) : start(i) < start(i + 1)
               /\ \A i \in 1..n : 0 <= start(i) /\ start(i) < stop(i)
                                  /\ stop(i) <= total
               /\ stop(n) = total
               /\ last_call.op \in {"update", "finish"}
                  => \A i \in 1..n :
                        /\ last_call.alpha * total <= One * start(i)
                           => anim.locals[i] = 0
                        /\ last_call.alpha * total >= One * stop(i)
                           => anim.locals[i] = One

\* C19 witness: three children under a lag_ratio of one half, updated at a
\* global alpha where the first child is done, the third has not started
\* and the second is under way.
C19_Witness ==
    /\ last_call.op = "update"
    /\ Len(anim.timings) = 3
    /\ anim.lag_ratio = One \div 2
    /\ anim.timings[3][1] > 0
    /\ anim.timings[3][2] = anim.max_end_time
    /\ anim.locals[1] = One
    /\ anim.locals[3] = 0
    /\ anim.locals[2] > 0

\* C21: a constructor changes neither the node the caller passes nor the
\* state attached to it: right after construction the node's geometry,
\* style, value and child list, and the state it has saved, are what they
\* were before.
C21_ConstructionInert ==
    (last_call.op = "construct" /\ anim.phase = "constructed")
        => /\ CallerNode(anim) = anim.given
           /\ anim.saved_state = anim.given_saved

\* C22: degenerate inputs neither raise nor divide by zero: begin on a
\* FadeIn with scale factor 0 completes, Brace.get_direction returns a
\* direction for a tip at the centre, and squish_rate_func over an empty
\* interval returns a value of [0, 1].
C22_DegenerateInputsComplete ==
    /\ (anim.kind = "FadeIn" /\ last_call.op = "begin") => ~anim.raised
    /\ (anim.phase = "brace" /\ anim.called)
          => (~anim.direction.nan /\ anim.direction.unit \in {-1, 1})
    /\ (anim.kind = "squish_rate_func" /\ anim.called /\ anim.a = anim.b)
          => anim.value \in 0..One

\* C23: a FadeOut with a shift of one unit and scale 0, begun and updated to
\* alpha 1, leaves the node with opacity 0, its centre one unit from where
\* the starting snapshot has it, and its size 0 (no stroke width, every
\* member at the centre).
C23_FadeOutReachesTarget ==
    (/\ anim.kind = "FadeOut"
     /\ anim.shift_vect = One
     /\ anim.scale_factor = 0
     /\ anim.phase = "begun"
     /\ last_call = Call("update", One)
     /\ ~anim.raised)
        => LET m == anim.heap["m"]
               s == anim.heap[anim.starting_mobject]
           IN  /\ get_center(m) = get_center(s) + One
               /\ \A i \in DOMAIN m.fam :
                     /\ m.fam[i].op = 0
                     /\ m.fam[i].width = 0
                     /\ m.fam[i].pos = get_center(m)

\* C23 witness: such a FadeOut of a node of two members at different places
\* has been updated to alpha 1, and the node is no longer what it was.
C23_Witness ==
    /\ anim.kind = "FadeOut"
    /\ anim.shift_vect = One
    /\ anim.scale_factor = 0
    /\ anim.phase = "begun"
    /\ last_call = Call("update", One)
    /\ Len(anim.heap["s"].fam) = 2
    /\ anim.heap["s"].fam[1].pos # anim.heap["s"].fam[2].pos
    /\ anim.heap["s"].fam[1].op = One
    /\ anim.heap["m"].fam[1].op = 0
    /\ anim.heap["m"].fam[1].pos = anim.heap["m"].fam[2].pos

\* The curves built on pull factors that carry them below 0 or above 1.
OvershootCurves == {"running_start", "overshoot"}

\* C24 as stated: every timing curve of the library, the overshooting ones
\* aside, returns 0 at t = 0 and 1 at t = 1.
C24_CurvesRunFromZeroToOne ==
    (anim.phase = "curve" /\ anim.called /\ anim.kind \notin OvershootCurves)
        => /\ anim.t = 0 => anim.value = 0
           /\ anim.t = One => anim.value = One

\* The curves that come back to where they started.
ReturningCurves == {"there_and_back", "there_and_back_with_pause", "wiggle"}

\* C24 amended: every timing curve returns 0 at t = 0, but for
\* squish_rate_func over an empty interval, which returns a everywhere.  At
\* t = 1 the returning curves return 0, not_quite_there and exponential_decay
\* return less than 1, squish_rate_func returns what its inner curve returns
\* at 1 (a over an empty interval), and every other curve returns 1.
C24_CurveEndValues ==
    (anim.phase = "curve" /\ anim.called)
        => LET squished == anim.kind = "squish_rate_func"
               empty == squished /\ anim.a = anim.b
           IN  /\ (anim.t = 0 /\ ~empty) => anim.value = 0
               /\ empty => anim.value = anim.a
               /\ (anim.t = One /\ ~empty) =>
                     CASE anim.kind \in ReturningCurves -> anim.value = 0
                       [] anim.kind \in {"not_quite_there", "exponential_decay"}
                             -> (anim.value > 0 /\ anim.value < One)
                       [] squished /\ anim.func \in ReturningCurves
                             -> anim.value = 0
                       [] OTHER -> anim.value = One

\* C24 witness: there_and_back has been called at t = 1 and returned 0.
C24_Witness ==
    /\ anim.phase = "curve"
    /\ anim.kind = "there_and_back"
    /\ anim.called
    /\ last_call = Call("curve", One)
    /\ anim.value = 0

\* C25: once a ReplacementTransform has finished and been cleaned up, the
\* scene holds the target the caller passed, not the aligned copy and not the
\* animated node; a plain Transform leaves the scene's membership as it was.
C25_ReplacementSwapsInOriginalTarget ==
    (anim.kind \in {"Transform", "ReplacementTransform"}
            /\ anim.phase = "finished" /\ anim.cleaned)
        => IF anim.kind = "ReplacementTransform"
           THEN /\ anim.target_mobject = "t"
                /\ anim.scene = {"t"}
           ELSE anim.scene = {"m"}

\* C25 witness: a ReplacementTransform whose target had to be aligned in a
\* copy has finished and been cleaned up, and the scene holds the target.
C25_Witness ==
    /\ anim.kind = "ReplacementTransform"
    /\ anim.phase = "finished"
    /\ anim.cleaned
    /\ anim.target_copy = "tc"
    /\ anim.heap["tc"] # anim.heap["t"]
    /\ "t" \in anim.scene

\* C26: once a call of a cached function has returned, every later call
\* with the same argument returns the same value without running the
\* function again, whatever the value (None included), until clear_cache;
\* the first call after clear_cache runs the function.
C26_CachedUntilCleared ==
    [][(anim.phase = "cache" /\ Calls("cached_call"))
        => LET arg == last_call'.alpha
           IN  IF anim.first[arg].present
               THEN /\ anim'.invoked = anim.invoked
                    /\ anim'.returned = anim.first[arg].value
               ELSE anim'.invoked[arg] = anim.invoked[arg] + 1]_vars

\* C27: for Rotating, Homotopy and PhaseFlow the node state after update(a)
\* depends only on the starting snapshot and a: during a run, update(a) gives
\* the same node state whether or not another update(b) came before it (and
\* so also when update(a) is repeated).
C27_UpdateIsPathIndependent ==
    (anim.kind \in {"Rotating", "Homotopy", "PhaseFlow"} /\ anim.phase = "begun")
        => \A a \in Alphas, b \in Alphas :
              NodeState(update(update(anim, b, 0), a, 0))
                  = NodeState(update(anim, a, 0))

\* The rounding function each family-count constructor takes by default.
DefaultIntFunc(kind) ==
    IF kind = "ShowSubmobjectsOneByOne" THEN "ceil" ELSE "round"

\* The children the node of an shows.
Shown(an) == {an.heap["m"].fam[i] : i \in DOMAIN an.heap["m"].fam}

\* C28: with a linear timing curve (and the default rounding) a family-count
\* animation over n >= 1 children shows nothing at alpha 0; at alpha 1
\* ShowIncreasingSubsets shows all n children in order and
\* ShowSubmobjectsOneByOne exactly the last child; and every child is shown
\* at some alpha.
C28_FamilyCountEndsOnLastChild ==
    (/\ anim.kind \in {"ShowIncreasingSubsets", "ShowSubmobjectsOneByOne"}
     /\ anim.phase = "begun"
     /\ ~anim.raised
     /\ anim.rate = "linear"
     /\ ~anim.has_span
     /\ anim.int_func = DefaultIntFunc(anim.kind)
     /\ Len(anim.all_submobs) >= 1)
        => LET n == Len(anim.all_submobs)
               fam == anim.heap["m"].fam
           IN  /\ last_call = Call("update", 0) => fam = <<>>
               /\ last_call = Call("update", One) =>
                     fam = IF anim.kind = "ShowIncreasingSubsets"
                           THEN anim.all_submobs
                           ELSE <<anim.all_submobs[n]>>
               /\ \A i \in 1..n : \E a \in Alphas :
                     anim.all_submobs[i] \in Shown(update(anim, a, 0))

\* The animation with the state it keeps for one run as the constructor
\* left it: no member has crossed halfway, and there is no last_alpha.
FreshRun(an) ==
    [an EXCEPT !.sm_to_index = [i \in DOMAIN an.sm_to_index |-> 0],
               !.last_alpha = -1]

\* C29: begin starts a fresh run, also on a finished animation: right after
\* begin the crossed-halfway flags of DrawBorderThenFill and the last_alpha
\* of PhaseFlow are as the constructor left them, so an update gives the node
\* state it gives in a first run from the same node state.
C29_BeginStartsFreshRun ==
    (/\ anim.kind \in {"DrawBorderThenFill", "PhaseFlow"}
     /\ anim.phase = "begun"
     /\ last_call.op = "begin")
        => /\ anim.sm_to_index = FreshRun(anim).sm_to_index
           /\ anim.last_alpha = FreshRun(anim).last_alpha
           /\ \A a \in Alphas :
                 NodeState(update(anim, a, 0)) = NodeState(update(FreshRun(anim), a, 0))

\* C30: what an animation uses as its start state is the node as it is when
\* begin is called, right after construction or after the caller has changed
\* the node in between: GrowFromCenter grows from the centre the node then
\* has, ChangeDecimalToValue starts from the value it then has, and
\* ShowIncreasingSubsets reveals the children it then has.
C30_StartStateTakenAtBegin ==
    [][(/\ anim.phase = "constructed"
        /\ last_call.op \in {"construct", "change"}
        /\ Calls("begin"))
        => /\ anim.kind = "GrowFromCenter"
                 => anim'.point = get_center(anim.heap["m"])
           /\ anim.kind = "ChangeDecimalToValue"
                 => anim'.start_number = anim.heap["m"].value
           /\ anim.kind = "ShowIncreasingSubsets"
                 => anim'.all_submobs = anim.heap["m"].fam]_vars

==========================================================================
